---- MODULE Spec2Model ----
(***************************************************************************)
(* Model of src/lambda/lambda_handler.py: the request handler that builds  *)
(* a prompt for a topic, calls the generation service, cleans the output,  *)
(* stores it under a timestamped key and shapes the response.              *)
(*                                                                         *)
(* Text is a sequence of one-character strings, so that the regular        *)
(* expressions, strip() and len() of the source act on characters.         *)
(***************************************************************************)
EXTENDS Integers, Sequences, FiniteSets, TLC

(* ------------------------------ bounds -------------------------------- *)
\* number of pieces concatenated into a raw text given to the sanitizer
MaxPieces == 3
\* longest topic given to build_prompt on its own
MaxTopicLen == 4

(* ------------------------- string primitives -------------------------- *)
SetMin(S) == CHOOSE x \in S : \A y \in S : x <= y

\* the function f on 1..n as a tuple
AsSeq(f, n) == SubSeq(f, 1, n)

\* n copies of the character c
Rep(c, n) == AsSeq([i \in 1..n |-> c], n)

\* the literal m occurs in s at position i
MatchAt(s, i, m) == /\ i + Len(m) - 1 <= Len(s)
                    /\ SubSeq(s, i, i + Len(m) - 1) = m

\* number of positions of s at which t occurs
Occurrences(t, s) == Cardinality({i \in 1..Len(s) : MatchAt(s, i, t)})

Contains(s, t) == \E i \in 1..Len(s) : MatchAt(s, i, t)

\* str.strip(): the characters Python treats as whitespace
Whitespace == {" ", "\n", "\t", "\r"}

strip(s) ==
    IF \A i \in 1..Len(s) : s[i] \in Whitespace THEN <<>>
    ELSE LET first == CHOOSE i \in 1..Len(s) :
                         /\ s[i] \notin Whitespace
                         /\ \A k \in 1..(i - 1) : s[k] \in Whitespace
             last == CHOOSE i \in 1..Len(s) :
                         /\ s[i] \notin Whitespace
                         /\ \A k \in (i + 1)..Len(s) : s[k] \in Whitespace
         IN  SubSeq(s, first, last)

\* the subsequence of s at the positions j for which Drop(s, j) is false
DeleteWhere(s, Drop(_, _)) ==
    LET indexed == [j \in 1..Len(s) |-> <<j, s[j]>>]
        kept == SelectSeq(indexed, LAMBDA p : ~Drop(s, p[1]))
    IN  AsSeq([k \in 1..Len(kept) |-> kept[k][2]], Len(kept))

\* position j of s lies in an occurrence of a literal of ms, as its k-th
\* character
InMatch(ms, s, j) ==
    \E m \in ms : \E k \in 1..Len(m) :
        m[k] = s[j] /\ j - k + 1 >= 1 /\ MatchAt(s, j - k + 1, m)

\* re.sub(<alternation of the literals ms>, "", s): the leftmost,
\* non-overlapping matches are deleted in one pass.  No suffix of a literal
\* of ms is a prefix of a literal of ms, so the matches are exactly the
\* occurrences of the literals in s.
re_sub_delete(ms, s) ==
    LET chars == UNION {{m[k] : k \in 1..Len(m)} : m \in ms}
    IN  DeleteWhere(s, LAMBDA t, j : t[j] \in chars /\ InMatch(ms, t, j))

\* position j of s is a newline after the first two of a run of at least n
ExtraNewline(n, s, j) ==
    /\ s[j] = "\n"
    /\ j >= 3 /\ s[j - 1] = "\n" /\ s[j - 2] = "\n"
    /\ \E a \in (j - n + 1)..(j - 2) :
          /\ a >= 1 /\ a + n - 1 <= Len(s)
          /\ \A k \in a..(a + n - 1) : s[k] = "\n"

\* re.sub(r"\n{n,}", "\n\n", s) for n >= 3: the match is greedy, so each
\* maximal run of n or more newlines keeps its first two newlines
re_sub_newlines(n, s) == DeleteWhere(s, LAMBDA t, j : ExtraNewline(n, t, j))

\* length of the run of newlines of s that starts at position i
NewlineRun(s, i) ==
    LET stop == {j \in i..Len(s) : s[j] # "\n"}
    IN  IF stop = {} THEN Len(s) - i + 1 ELSE SetMin(stop) - i

(* ----------------------------- build_prompt --------------------------- *)
\* the f-string of build_prompt before {topic}
PromptHead ==
    <<"\n", "<", "s", ">", "[", "I", "N", "S", "T", "]", "\n", "Y", "o",
      "u", " ", "a", "r", "e", " ", "a", " ", "p", "r", "o", "f", "e", "s",
      "s", "i", "o", "n", "a", "l", " ", "b", "l", "o", "g", " ", "w", "r",
      "i", "t", "e", "r", ".", "\n", "\n", "W", "r", "i", "t", "e", " ",
      "a", " ", "c", "l", "e", "a", "r", ",", " ", "c", "o", "n", "c", "i",
      "s", "e", ",", " ", "a", "n", "d", " ", "w", "e", "l", "l", "-", "s",
      "t", "r", "u", "c", "t", "u", "r", "e", "d", " ", "2", "0", "0", "-",
      "w", "o", "r", "d", " ", "b", "l", "o", "g", " ", "p", "o", "s", "t",
      " ", "o", "n", " ", "t", "h", "e", " ", "t", "o", "p", "i", "c", ":",
      " ", "\"">>

\* the f-string of build_prompt after {topic}
PromptTail ==
    <<"\"", ".", "\n", "F", "o", "r", "m", "a", "t", " ", "i", "t", " ",
      "u", "s", "i", "n", "g", ":", "\n", "-", " ", "A", " ", "t", "i", "t",
      "l", "e", " ", "i", "n", " ", "h", "e", "a", "d", "i", "n", "g", " ",
      "s", "t", "y", "l", "e", "\n", "-", " ", "S", "u", "b", "h", "e", "a",
      "d", "i", "n", "g", "s", " ", "f", "o", "r", " ", "s", "e", "c", "t",
      "i", "o", "n", "s", "\n", "-", " ", "B", "u", "l", "l", "e", "t", " ",
      "p", "o", "i", "n", "t", "s", " ", "w", "h", "e", "r", "e", " ", "a",
      "p", "p", "l", "i", "c", "a", "b", "l", "e", "\n", "A", "v", "o", "i",
      "d", " ", "r", "e", "p", "e", "a", "t", "i", "n", "g", " ", "t", "h",
      "e", " ", "p", "r", "o", "m", "p", "t", " ", "o", "r", " ", "a", "d",
      "d", "i", "n", "g", " ", "i", "n", "s", "t", "r", "u", "c", "t", "i",
      "o", "n", "a", "l", " ", "t", "o", "k", "e", "n", "s", ".", " ", "E",
      "n", "d", " ", "t", "h", "e", " ", "b", "l", "o", "g", " ", "n", "a",
      "t", "u", "r", "a", "l", "l", "y", ".", "\n", "[", "/", "I", "N", "S",
      "T", "]", "\n">>

\* a prompt that leaves the topic out
build_prompt_no_topic(topic) == strip(PromptHead \o PromptTail)

build_prompt(topic) == strip(PromptHead \o topic \o PromptTail)

\* position of the topic in the prompt: strip() removes the leading newline
TopicPos == Len(PromptHead)

(* -------------------------- clean_llama_output ------------------------ *)
SeqMarkers == {<<"<", "s", ">">>, <<"<", "/", "s", ">">>}
InstMarkers == {<<"[", "I", "N", "S", "T", "]">>,
                <<"[", "/", "I", "N", "S", "T", "]">>}
Markers == SeqMarkers \cup InstMarkers

\* the text after the two marker substitutions and strip()
clean_markers(raw_text) ==
    strip(re_sub_delete(InstMarkers, re_sub_delete(SeqMarkers, raw_text)))

\* a sanitizer whose newline pattern is \n{4,}
clean_llama_output_four(raw_text) ==
    re_sub_newlines(4, clean_markers(raw_text))

clean_llama_output(raw_text) == re_sub_newlines(3, clean_markers(raw_text))

(* ------------------------------ constants ----------------------------- *)
S3_PREFIX == <<"b", "l", "o", "g", "_", "o", "u", "t", "p", "u", "t">>
\* lambda_handler rejects a blog of fewer characters
MinBlogLen == 100

(* ------------------------ json.loads on the body ---------------------- *)
\* A body is a sequence of JSON tokens <<kind, text>>; a "word" is text
\* that is no JSON token.
LBrace == <<"{", <<>>>>
RBrace == <<"}", <<>>>>
LBracket == <<"[", <<>>>>
RBracket == <<"]", <<>>>>
Colon == <<":", <<>>>>
StrTok(s) == <<"str", s>>
IntTok(s) == <<"int", s>>
NullTok == <<"null", <<>>>>
TrueTok == <<"bool", <<"t", "r", "u", "e">>>>
WordTok(s) == <<"word", s>>

ScalarKinds == {"str", "int", "null", "bool"}

\* Python values: None, str, int, bool, list, dict (entries: key, value)
PyNone == [type |-> "null", text |-> <<>>]
PyScalar(tok) == [type |-> tok[1], text |-> tok[2]]
PyList == [type |-> "list", text |-> <<>>, entries |-> <<>>]
PyDict(es) == [type |-> "dict", text |-> <<>>, entries |-> es]

IsObjectWithOneMember(text) ==
    /\ Len(text) = 5
    /\ text[1] = LBrace /\ text[2][1] = "str" /\ text[3] = Colon
    /\ text[4][1] \in ScalarKinds /\ text[5] = RBrace

\* JSONDecoder.decode(text): ok = FALSE stands for json.JSONDecodeError
json_decode(text) ==
    IF Len(text) = 1 /\ text[1][1] \in ScalarKinds
    THEN [ok |-> TRUE,
          value |-> [type |-> text[1][1], text |-> text[1][2], entries |-> <<>>]]
    ELSE IF text = <<LBracket, RBracket>>
    THEN [ok |-> TRUE, value |-> PyList]
    ELSE IF text = <<LBrace, RBrace>>
    THEN [ok |-> TRUE, value |-> PyDict(<<>>)]
    ELSE IF IsObjectWithOneMember(text)
    THEN [ok |-> TRUE,
          value |-> PyDict(<<[key |-> text[2][2], value |-> PyScalar(text[4])]>>)]
    ELSE [ok |-> FALSE, value |-> PyDict(<<>>)]

\* a json.loads that answers {} where the decoder raises
json_loads_lenient(text) ==
    IF json_decode(text).ok THEN json_decode(text)
    ELSE [ok |-> TRUE, value |-> PyDict(<<>>)]

\* json.loads(text) as called on line 109
json_loads(text) == json_decode(text)

\* dict.get(key): None when the key is absent
dict_get(d, key) ==
    IF \E k \in 1..Len(d.entries) : d.entries[k].key = key
    THEN d.entries[CHOOSE k \in 1..Len(d.entries) : d.entries[k].key = key].value
    ELSE PyNone

\* truth value of a Python scalar, as tested by "not topic"
Truthy(v) ==
    CASE v.type = "null" -> FALSE
      [] v.type = "str"  -> v.text # <<>>
      [] v.type = "int"  -> v.text # <<"0">>
      [] v.type = "bool" -> v.text = <<"t", "r", "u", "e">>
      [] OTHER           -> FALSE

\* json.dumps({"error": msg}) for a message without escapes
json_dumps_error(msg) == <<"{", "\"", "e", "r", "r", "o", "r", "\"", ":", " ", "\"">> \o msg \o <<"\"", "}">>

MissingTopicMsg == <<"M", "i", "s", "s", "i", "n", "g", " ", "'", "t", "o", "p", "i", "c", "'", " ", "i", "n", " ", "r", "e", "q", "u", "e", "s", "t", " ", "b", "o", "d", "y">>
GenerationFailedMsg == <<"B", "l", "o", "g", " ", "g", "e", "n", "e", "r", "a", "t", "i", "o", "n", " ", "f", "a", "i", "l", "e", "d", " ", "o", "r", " ", "r", "e", "t", "u", "r", "n", "e", "d", " ", "e", "m", "p", "t", "y", " ", "c", "o", "n", "t", "e", "n", "t", ".">>
InternalErrorMsg == <<"I", "n", "t", "e", "r", "n", "a", "l", " ", "s", "e", "r", "v", "e", "r", " ", "e", "r", "r", "o", "r", ".">>

\* content.encode("utf-8") for the ASCII characters the model generates
Ord(c) ==
    CASE c = "\n" -> 10 [] c = " " -> 32 [] c = "/" -> 47 [] c = "<" -> 60
      [] c = ">" -> 62  [] c = "I" -> 73 [] c = "N" -> 78 [] c = "S" -> 83
      [] c = "T" -> 84  [] c = "[" -> 91 [] c = "]" -> 93 [] c = "a" -> 97
      [] c = "b" -> 98  [] c = "s" -> 115

encode_utf8(s) == AsSeq([k \in 1..Len(s) |-> Ord(s[k])], Len(s))

(* ------------------------------- inputs ------------------------------- *)
TopicKey == <<"t", "o", "p", "i", "c">>
Keys == {TopicKey, <<"t", "i", "t", "l", "e">>}
ScalarTokens == {StrTok(<<>>), StrTok(<<"A", "I">>), IntTok(<<"0">>), IntTok(<<"7">>),
                 NullTok, TrueTok}

\* bodies that json.loads accepts
WellFormedBodies ==
    {<<LBrace, StrTok(k), Colon, v, RBrace>> : k \in Keys, v \in ScalarTokens}
    \cup {<<v>> : v \in ScalarTokens}
    \cup {<<LBrace, RBrace>>, <<LBracket, RBracket>>}

\* bodies that json.loads rejects: empty text, truncated object, bare word
MalformedBodies ==
    {<<>>, <<LBrace, StrTok(TopicKey), Colon>>, <<WordTok(TopicKey)>>,
     <<LBrace, WordTok(TopicKey), Colon, StrTok(<<"A", "I">>), RBrace>>}

\* an event: the "body" key may be absent, hold None, or hold a string
EventWithBody(text) == [has_body |-> TRUE, is_str |-> TRUE, body |-> text]
EventNoBody == [has_body |-> FALSE, is_str |-> FALSE, body |-> <<>>]
EventNullBody == [has_body |-> TRUE, is_str |-> FALSE, body |-> <<>>]

Events == {EventWithBody(t) : t \in WellFormedBodies \cup MalformedBodies}
          \cup {EventNoBody, EventNullBody}

\* what bedrock_runtime.invoke_model can do: raise, answer without a
\* "generation" field, or answer with generated text
GenRaises == [raised |-> TRUE, has_generation |-> FALSE, generation |-> <<>>]
GenWithout == [raised |-> FALSE, has_generation |-> FALSE, generation |-> <<>>]
GenText(t) == [raised |-> FALSE, has_generation |-> TRUE, generation |-> t]

GeneratedTexts ==
    { Rep("a", MinBlogLen),
      Rep("a", MinBlogLen - 1),
      <<"<", "s", ">">> \o Rep("a", MinBlogLen - 3),
      <<"<", "s", ">", " ">> \o Rep("b", MinBlogLen \div 2) \o <<"\n", "\n", "\n", "\n">>
          \o Rep("b", MinBlogLen \div 2) \o <<"<", "/", "s", ">", "\n">>,
      <<"[", "I", "N", "S", "T", "]">> \o Rep("b", MinBlogLen) \o <<"[", "/", "I", "N", "S", "T", "]">>,
      <<>> }

GenOutcomes == {GenRaises, GenWithout} \cup {GenText(t) : t \in GeneratedTexts}

(* ---------------------------- save_to_s3 key -------------------------- *)
\* ticks of the clock the model follows
MaxTicks == 1
\* the clock starts one second before midnight of the first day
StartClock == 24 * 3600 - 1

Digit(n) == <<"0", "1", "2", "3", "4", "5", "6", "7", "8", "9">>[n + 1]
TwoDigits(n) == <<Digit((n \div 10) % 10), Digit(n % 10)>>

\* a format without day and time, "%Y_%m"
strftime_year_month(t) == <<"2", "0", "2", "4", "_", "0", "1">>

\* datetime.strftime("%Y_%m_%d_%H%M%S") of the second t of January 2024
strftime(t) ==
    <<"2", "0", "2", "4", "_", "0", "1", "_">> \o TwoDigits(1 + t \div 86400) \o <<"_">>
    \o TwoDigits((t \div 3600) % 24) \o TwoDigits((t \div 60) % 60)
    \o TwoDigits(t % 60)

\* f"{S3_PREFIX}/{timestamp}.txt"
s3_key_at(t) == S3_PREFIX \o <<"/">> \o strftime(t) \o <<".", "t", "x", "t">>

(* ------------------------------- state -------------------------------- *)
VARIABLES
    pc,          \* per invocation: the step lambda_handler is at
    event,       \* per invocation: the inbound event
    body,        \* per invocation: json.loads of the event body
    topic,       \* per invocation: body.get("topic")
    blog,        \* per invocation: the result of generate_blog
    s3_key,      \* per invocation: the key save_to_s3 computed
    stamp,       \* per invocation: the second save_to_s3 read from the clock
    response,    \* per invocation: the envelope returned
    returned,    \* per invocation: number of envelopes returned
    gen_calls,   \* per invocation: calls of invoke_model
    attempts,    \* per invocation: requests invoke_model sent to the service
    puts,        \* per invocation: outcome of each call of put_object
    generation,  \* per invocation: what invoke_model answered
    s3_objects,  \* the bucket: key -> stored bytes
    writer,      \* the bucket: key -> invocation whose put stored the bytes
    now,         \* the clock, in seconds
    raw_text,    \* sanitizer alone: the input
    stripped,    \* sanitizer alone: the text after markers and strip()
    cleaned,     \* sanitizer alone: clean_llama_output(raw_text)
    recleaned,   \* sanitizer alone: clean_llama_output(cleaned)
    given_topic, \* build_prompt alone: the topic
    prompt,      \* build_prompt alone: the prompt
    unit_pc      \* the step of the function applied alone

handler_vars == <<pc, event, body, topic, blog, s3_key, stamp, response,
                  returned, gen_calls, attempts, puts, generation, s3_objects,
                  writer, now>>
unit_vars == <<raw_text, stripped, cleaned, recleaned, given_topic, prompt,
               unit_pc>>
vars == <<pc, event, body, topic, blog, s3_key, stamp, response, returned,
          gen_calls, attempts, puts, generation, s3_objects, writer, now,
          raw_text, stripped, cleaned, recleaned, given_topic, prompt,
          unit_pc>>

\* concurrent invocations of the handler
NumInvocations == 2

Terminal == {"Responding", "RespondingError"}

(* ------------------------------ responses ----------------------------- *)
AllowOrigin == <<"Access-Control-Allow-Origin", "*">>
AllowHeaders == <<"Access-Control-Allow-Headers", "Content-Type">>

NoResponse == [statusCode |-> 0, headers |-> {}, body |-> <<>>]

\* a 400 response without the cross-origin header
MissingTopicResponse_no_cors ==
    [statusCode |-> 400, headers |-> {},
     body |-> json_dumps_error(MissingTopicMsg)]

MissingTopicResponse ==
    [statusCode |-> 400, headers |-> {AllowOrigin},
     body |-> json_dumps_error(MissingTopicMsg)]

GenerationFailedResponse ==
    [statusCode |-> 500, headers |-> {AllowOrigin, AllowHeaders},
     body |-> json_dumps_error(GenerationFailedMsg)]

InternalErrorResponse ==
    [statusCode |-> 500, headers |-> {AllowOrigin, AllowHeaders},
     body |-> json_dumps_error(InternalErrorMsg)]

BlogResponse(text) ==
    [statusCode |-> 200, headers |-> {AllowOrigin, AllowHeaders},
     body |-> text]

\* a return statement of lambda_handler
Return(i, r, state) ==
    /\ response' = [response EXCEPT ![i] = r]
    /\ returned' = [returned EXCEPT ![i] = @ + 1]
    /\ pc' = [pc EXCEPT ![i] = state]

\* an exception that no handler catches leaves the invocation without response
Escape(i) ==
    /\ pc' = [pc EXCEPT ![i] = "Raised"]
    /\ UNCHANGED <<response, returned>>

\* an except clause that lets the exception leave the handler
UnhandledException_escape(i) == Escape(i)

\* an except clause that answers with the body of the length check
UnhandledException_wrong_body(i) ==
    Return(i, GenerationFailedResponse, "RespondingError")

\* lines 142-148: the except clause of lambda_handler
UnhandledException(i) == Return(i, InternalErrorResponse, "RespondingError")

Goto(i, state) ==
    /\ pc' = [pc EXCEPT ![i] = state]
    /\ UNCHANGED <<response, returned>>

(* ---------------------------- generate_blog --------------------------- *)
\* line 24: retries={'max_attempts': 3}
RETRY_MAX_ATTEMPTS == 3

\* botocore, legacy retry mode (no 'mode' is set on line 24): max_attempts
\* counts the retries that follow the first request
TotalMaxAttempts == RETRY_MAX_ATTEMPTS + 1

\* a generate_blog that returns the generated text without cleaning it
generate_blog_raw(t, outcome) ==
    IF outcome.raised THEN <<>>
    ELSE IF outcome.has_generation THEN outcome.generation ELSE <<>>

generate_blog(t, outcome) ==
    IF outcome.raised THEN <<>>
    ELSE clean_llama_output(IF outcome.has_generation
                            THEN outcome.generation ELSE <<>>)

\* a test that rejects nothing
TooShort_never(b) == FALSE

\* a test that rejects the empty blog only
TooShort_empty_only(b) == b = <<>>

\* line 123: not blog or len(blog) < 100
TooShort(b) == b = <<>> \/ Len(b) < MinBlogLen

(* ------------------------------- actions ------------------------------ *)
InitHandler(ids) ==
    /\ pc = [i \in ids |-> "Idle"]
    /\ event = [i \in ids |-> EventNoBody]
    /\ body = [i \in ids |-> PyDict(<<>>)]
    /\ topic = [i \in ids |-> PyNone]
    /\ blog = [i \in ids |-> <<>>]
    /\ s3_key = [i \in ids |-> <<>>]
    /\ stamp = [i \in ids |-> 0]
    /\ response = [i \in ids |-> NoResponse]
    /\ returned = [i \in ids |-> 0]
    /\ gen_calls = [i \in ids |-> 0]
    /\ attempts = [i \in ids |-> 0]
    /\ puts = [i \in ids |-> <<>>]
    /\ generation = [i \in ids |-> GenRaises]
    /\ s3_objects = <<>>
    /\ writer = <<>>
    /\ now = StartClock

InitUnit ==
    /\ raw_text = <<>>
    /\ stripped = <<>>
    /\ cleaned = <<>>
    /\ recleaned = <<>>
    /\ given_topic = <<>>
    /\ prompt = <<>>
    /\ unit_pc = "off"

\* the runtime calls lambda_handler(event, context)
Invoke(i, e) ==
    /\ pc[i] = "Idle"
    /\ event' = [event EXCEPT ![i] = e]
    /\ Goto(i, "ParsingRequest")
    /\ UNCHANGED <<body, topic, blog, s3_key, stamp, gen_calls, attempts,
                   puts, generation, s3_objects, writer, now>>
    /\ UNCHANGED unit_vars

\* line 109: json.loads(event.get("body", "{}"))
ParseRequest(i) ==
    /\ pc[i] = "ParsingRequest"
    /\ LET e == event[i]
           text == IF e.has_body THEN e.body ELSE <<LBrace, RBrace>>
           is_str == ~e.has_body \/ e.is_str
           parsed == json_loads(text)
       IN  IF is_str /\ parsed.ok
           THEN /\ body' = [body EXCEPT ![i] = parsed.value]
                /\ Goto(i, "ValidatingTopic")
           ELSE /\ UnhandledException(i)
                /\ UNCHANGED body
    /\ UNCHANGED <<event, topic, blog, s3_key, stamp, gen_calls, attempts,
                   puts, generation, s3_objects, writer, now>>
    /\ UNCHANGED unit_vars

\* a handler that calls generate_blog before it tests the topic
ValidateTopic_generates_first(i) ==
    /\ pc[i] = "ValidatingTopic"
    /\ IF body[i].type # "dict"
       THEN /\ UnhandledException(i)
            /\ UNCHANGED <<topic, gen_calls, attempts>>
       ELSE LET t == dict_get(body[i], TopicKey)
            IN  /\ topic' = [topic EXCEPT ![i] = t]
                /\ gen_calls' = [gen_calls EXCEPT ![i] = @ + 1]
                /\ attempts' = [attempts EXCEPT ![i] = @ + 1]
                /\ IF ~Truthy(t)
                   THEN Return(i, MissingTopicResponse, "RespondingError")
                   ELSE Goto(i, "Generating")
    /\ UNCHANGED <<event, body, blog, s3_key, stamp, puts, generation,
                   s3_objects, writer, now>>
    /\ UNCHANGED unit_vars

\* lines 110-117: body.get("topic") and the test "not topic"
ValidateTopic(i) ==
    /\ pc[i] = "ValidatingTopic"
    /\ IF body[i].type # "dict"
       THEN /\ UnhandledException(i)
            /\ UNCHANGED topic
       ELSE LET t == dict_get(body[i], TopicKey)
            IN  /\ topic' = [topic EXCEPT ![i] = t]
                /\ IF ~Truthy(t)
                   THEN Return(i, MissingTopicResponse, "RespondingError")
                   ELSE Goto(i, "Generating")
    /\ UNCHANGED <<event, body, blog, s3_key, stamp, gen_calls, attempts,
                   puts, generation, s3_objects, writer, now>>
    /\ UNCHANGED unit_vars

\* line 121, inside invoke_model: a request fails with a transient error
\* (connection, timeout, throttling, 5xx).  botocore sends it again while
\* requests are left; after the last one the error leaves invoke_model and
\* generate_blog returns "".
TransientFailure(i) ==
    /\ pc[i] = "Generating"
    /\ attempts' = [attempts EXCEPT ![i] = @ + 1]
    /\ IF attempts[i] + 1 < TotalMaxAttempts
       THEN /\ UNCHANGED <<pc, response, returned, blog, gen_calls, generation>>
       ELSE /\ blog' = [blog EXCEPT ![i] = generate_blog(topic[i], GenRaises)]
            /\ gen_calls' = [gen_calls EXCEPT ![i] = @ + 1]
            /\ generation' = [generation EXCEPT ![i] = GenRaises]
            /\ Goto(i, "CheckingLength")
    /\ UNCHANGED <<event, body, topic, s3_key, stamp, puts, s3_objects,
                   writer, now>>
    /\ UNCHANGED unit_vars

\* line 121: blog = generate_blog(topic); the request that ends invoke_model
\* is answered with outcome (an answer, or an error that is not retried)
GenerateBlog(i, outcome) ==
    /\ pc[i] = "Generating"
    /\ blog' = [blog EXCEPT ![i] = generate_blog(topic[i], outcome)]
    /\ gen_calls' = [gen_calls EXCEPT ![i] = @ + 1]
    /\ attempts' = [attempts EXCEPT ![i] = @ + 1]
    /\ generation' = [generation EXCEPT ![i] = outcome]
    /\ Goto(i, "CheckingLength")
    /\ UNCHANGED <<event, body, topic, s3_key, stamp, puts, s3_objects,
                   writer, now>>
    /\ UNCHANGED unit_vars

\* lines 123-129: if not blog or len(blog) < 100
CheckLength(i) ==
    /\ pc[i] = "CheckingLength"
    /\ IF TooShort(blog[i])
       THEN Return(i, GenerationFailedResponse, "RespondingError")
       ELSE Goto(i, "Persisting")
    /\ UNCHANGED <<event, body, topic, blog, s3_key, stamp, gen_calls,
                   attempts, puts, generation, s3_objects, writer, now>>
    /\ UNCHANGED unit_vars

\* lines 89-90 of save_to_s3: the key from the current second
Timestamp(i) ==
    /\ pc[i] = "Persisting"
    /\ s3_key' = [s3_key EXCEPT ![i] = s3_key_at(now)]
    /\ stamp' = [stamp EXCEPT ![i] = now]
    /\ Goto(i, "Putting")
    /\ UNCHANGED <<event, body, topic, blog, gen_calls, attempts, puts,
                   generation, s3_objects, writer, now>>
    /\ UNCHANGED unit_vars

\* lines 92-98 of save_to_s3: put_object stores the bytes, or raises and
\* the exception travels to the except clause of lambda_handler
PutObject(i, ok) ==
    /\ pc[i] = "Putting"
    /\ puts' = [puts EXCEPT ![i] = Append(@, IF ok THEN "ok" ELSE "failed")]
    /\ IF ok
       THEN /\ s3_objects' =
                  [k \in DOMAIN s3_objects \cup {s3_key[i]} |->
                      IF k = s3_key[i] THEN encode_utf8(blog[i])
                      ELSE s3_objects[k]]
            /\ writer' =
                  [k \in DOMAIN writer \cup {s3_key[i]} |->
                      IF k = s3_key[i] THEN i ELSE writer[k]]
            /\ Goto(i, "Saved")
       ELSE /\ UnhandledException(i)
            /\ UNCHANGED <<s3_objects, writer>>
    /\ UNCHANGED <<event, body, topic, blog, s3_key, stamp, gen_calls,
                   attempts, generation, now>>
    /\ UNCHANGED unit_vars

\* a handler that keeps the blog in a module-level variable: the 200
\* envelope carries the text of the invocation that stored last
ReturnBlog_shared(i) ==
    /\ pc[i] = "Saved"
    /\ Return(i, BlogResponse(blog[writer[s3_key[i]]]), "Responding")
    /\ UNCHANGED <<event, body, topic, blog, s3_key, stamp, gen_calls,
                   attempts, puts, generation, s3_objects, writer, now>>
    /\ UNCHANGED unit_vars

\* lines 133-140: the 200 envelope
ReturnBlog(i) ==
    /\ pc[i] = "Saved"
    /\ Return(i, BlogResponse(blog[i]), "Responding")
    /\ UNCHANGED <<event, body, topic, blog, s3_key, stamp, gen_calls,
                   attempts, puts, generation, s3_objects, writer, now>>
    /\ UNCHANGED unit_vars

\* a second passes
Tick ==
    /\ now < StartClock + MaxTicks
    /\ now' = now + 1
    /\ UNCHANGED <<pc, event, body, topic, blog, s3_key, stamp, response,
                   returned, gen_calls, attempts, puts, generation,
                   s3_objects, writer>>
    /\ UNCHANGED unit_vars

\* a step of invocation i that is not its start
HandlerStep(i, outcomes) ==
    \/ ParseRequest(i)
    \/ ValidateTopic(i)
    \/ \E o \in outcomes : GenerateBlog(i, o)
    \/ CheckLength(i)
    \/ Timestamp(i)
    \/ \E ok \in BOOLEAN : PutObject(i, ok)
    \/ ReturnBlog(i)

(* ------------------- one invocation, every input ---------------------- *)
Init == InitHandler({1}) /\ InitUnit

Next ==
    \/ \E i \in DOMAIN pc :
          \/ \E e \in Events : Invoke(i, e)
          \/ HandlerStep(i, GenOutcomes)
          \/ TransientFailure(i)
    \/ Tick

Spec == Init /\ [][Next]_vars

\* the runtime keeps running an invocation it started
FairSpec ==
    Spec /\ \A i \in {1} :
               WF_vars(HandlerStep(i, GenOutcomes) \/ TransientFailure(i))

(* ---------------- concurrent invocations, fewer inputs ---------------- *)
\* here the service has no transient errors: each invoke_model is one request
ConcEvents ==
    {EventWithBody(<<LBrace, StrTok(TopicKey), Colon, StrTok(<<"A", "I">>), RBrace>>),
     EventWithBody(<<LBrace, RBrace>>),
     EventWithBody(<<LBracket, RBracket>>),
     EventWithBody(<<>>)}

ConcGenOutcomes ==
    {GenRaises, GenText(Rep("a", MinBlogLen)),
     GenText(<<"[", "I", "N", "S", "T", "]">> \o Rep("b", MinBlogLen) \o <<"[", "/", "I", "N", "S", "T", "]">>)}

ConcInit == InitHandler(1..NumInvocations) /\ InitUnit

ConcNext ==
    \/ \E i \in DOMAIN pc :
          \/ \E e \in ConcEvents : Invoke(i, e)
          \/ HandlerStep(i, ConcGenOutcomes)
    \/ Tick

ConcSpec == ConcInit /\ [][ConcNext]_vars

(* ------------------- clean_llama_output on its own -------------------- *)
\* raw texts are concatenations of at most MaxPieces of these pieces
Pieces ==
    {<<"<">>, <<"s", ">">>, <<"<", "s", ">">>, <<"<", "/", "s", ">">>, <<"[", "I", "N", "S", "T", "]">>, <<"[", "/", "I", "N", "S", "T", "]">>, <<"[", "I", "N">>,
     <<"S", "T", "]">>, <<"a">>, <<"\n">>, <<"\n", "\n">>, <<" ">>, <<"a", "\n">>}

RECURSIVE Concatenations(_)
Concatenations(n) ==
    IF n = 0 THEN {<<>>}
    ELSE LET shorter == Concatenations(n - 1)
         IN  shorter \cup {p \o x : p \in Pieces, x \in shorter}

RawTexts == Concatenations(MaxPieces)

SanInit ==
    /\ InitHandler({1})
    /\ raw_text \in RawTexts
    /\ stripped = <<>>
    /\ cleaned = <<>>
    /\ recleaned = <<>>
    /\ given_topic = <<>>
    /\ prompt = <<>>
    /\ unit_pc = "raw"

\* clean_llama_output(raw_text); stripped is its value after line 50
Clean ==
    /\ unit_pc = "raw"
    /\ stripped' = clean_markers(raw_text)
    /\ cleaned' = clean_llama_output(raw_text)
    /\ unit_pc' = "cleaned"
    /\ UNCHANGED <<raw_text, recleaned, given_topic, prompt>>
    /\ UNCHANGED handler_vars

\* clean_llama_output applied to its own output
CleanAgain ==
    /\ unit_pc = "cleaned"
    /\ recleaned' = clean_llama_output(cleaned)
    /\ unit_pc' = "recleaned"
    /\ UNCHANGED <<raw_text, stripped, cleaned, given_topic, prompt>>
    /\ UNCHANGED handler_vars

SanNext == Clean \/ CleanAgain

SanSpec == SanInit /\ [][SanNext]_vars

(* ----------------------- build_prompt on its own ---------------------- *)
\* "Z" occurs nowhere in the instruction text; the other letters do
TopicAlphabet == {"b", "l", "o", "g", "Z"}

Topics == UNION {[1..n -> TopicAlphabet] : n \in 1..MaxTopicLen}

PromptInit ==
    /\ InitHandler({1})
    /\ raw_text = <<>>
    /\ stripped = <<>>
    /\ cleaned = <<>>
    /\ recleaned = <<>>
    /\ given_topic \in Topics
    /\ prompt = <<>>
    /\ unit_pc = "topic"

BuildPrompt ==
    /\ unit_pc = "topic"
    /\ prompt' = build_prompt(given_topic)
    /\ unit_pc' = "built"
    /\ UNCHANGED <<raw_text, stripped, cleaned, recleaned, given_topic>>
    /\ UNCHANGED handler_vars

PromptNext == BuildPrompt

PromptSpec == PromptInit /\ [][PromptNext]_vars

(* =============================== claims =============================== *)
KeyPrefix == S3_PREFIX \o <<"/">>

\* invocation i has come to a response on this step
Responds(i) == pc[i] \notin Terminal /\ pc'[i] \in Terminal

\* the precondition of C1: a topic, a long enough sanitized text, a put
\* that succeeded
ValidAndStored(i) ==
    /\ puts[i] = <<"ok">>
    /\ Truthy(topic[i])
    /\ gen_calls[i] = 1
    /\ ~generation[i].raised
    /\ generation[i].has_generation
    /\ Len(clean_llama_output(generation[i].generation)) >= MinBlogLen

\* C1 as stated: when an invocation with a non-empty topic, a sanitized
\* text of at least 100 characters and a successful put returns, the
\* response is 200 with the sanitized text as body, and the store holds an
\* artifact under a blog_output/ key whose content is that text.
C1_ArtifactHoldsBodyAtReturn ==
    [][\A i \in DOMAIN pc :
          Responds(i) /\ ValidAndStored(i) =>
             /\ response'[i].statusCode = 200
             /\ response'[i].body = clean_llama_output(generation[i].generation)
             /\ \E k \in DOMAIN s3_objects' :
                   /\ MatchAt(k, 1, KeyPrefix)
                   /\ s3_objects'[k] = encode_utf8(response'[i].body)]_vars

\* C1 as amended: the response is 200 with the sanitized text as body, the
\* invocation has put that text under its blog_output/ key, and when it
\* returns the key holds that text or the text of another invocation that
\* put under the same key (same second) after it.
C1_ArtifactWrittenLastWriteWins ==
    [][\A i \in DOMAIN pc :
          Responds(i) /\ ValidAndStored(i) =>
             /\ response'[i].statusCode = 200
             /\ response'[i].body = clean_llama_output(generation[i].generation)
             /\ MatchAt(s3_key[i], 1, KeyPrefix)
             /\ s3_key[i] \in DOMAIN s3_objects'
             /\ \/ s3_objects'[s3_key[i]] = encode_utf8(response'[i].body)
                \/ \E j \in DOMAIN pc \ {i} :
                      /\ s3_key[j] = s3_key[i]
                      /\ puts[j] = <<"ok">>
                      /\ s3_objects'[s3_key[i]] = encode_utf8(blog[j])]_vars

\* C1 witness: a 200 response whose text is stored under the invocation's key
C1_Witness ==
    \E i \in DOMAIN pc :
        /\ pc[i] = "Responding"
        /\ response[i].statusCode = 200
        /\ Len(response[i].body) >= MinBlogLen
        /\ s3_key[i] \in DOMAIN s3_objects
        /\ s3_objects[s3_key[i]] = encode_utf8(response[i].body)

\* C2: an invocation with a non-empty topic whose sanitized text has fewer
\* than 100 characters (the empty text of a failed generation included)
\* answers 500 with the "generation failed" body, not the generic one, and
\* has made no put.
C2_ShortTextIs500WithoutArtifact ==
    \A i \in DOMAIN pc :
        (/\ pc[i] \in Terminal
         /\ Truthy(topic[i])
         /\ gen_calls[i] = 1
         /\ Len(blog[i]) < MinBlogLen)
        => /\ response[i].statusCode = 500
           /\ response[i].body = json_dumps_error(GenerationFailedMsg)
           /\ response[i].body # json_dumps_error(InternalErrorMsg)
           /\ puts[i] = <<>>
           /\ s3_objects = <<>>

\* C2 witness: the generation raised and the handler answered
C2_Witness ==
    \E i \in DOMAIN pc :
        /\ pc[i] \in Terminal
        /\ Truthy(topic[i])
        /\ gen_calls[i] = 1
        /\ generation[i].raised
        /\ response[i].statusCode = 500

\* the events C3 speaks of: no body, or a well-formed body that is not an
\* object with a non-empty topic
TopicMissingOrEmpty(e) ==
    \/ ~e.has_body
    \/ /\ e.is_str
       /\ e.body \in WellFormedBodies
       /\ ~(/\ Len(e.body) = 5
            /\ e.body[2] = StrTok(TopicKey)
            /\ e.body[4] \notin {StrTok(<<>>), NullTok, IntTok(<<"0">>)})

\* C3 as stated: every event whose topic is missing or empty is answered
\* with 400 and the "Missing 'topic'" body.
C3_MissingTopicIs400 ==
    \A i \in DOMAIN pc :
        pc[i] \in Terminal /\ TopicMissingOrEmpty(event[i])
        => /\ response[i].statusCode = 400
           /\ response[i].body = json_dumps_error(MissingTopicMsg)

\* C4: an event whose body json.loads rejects goes from ParsingRequest
\* straight to the error response, 500 with the generic body.
Malformed(e) == e.has_body /\ e.is_str /\ e.body \in MalformedBodies

C4_MalformedBodyIs500 ==
    /\ [](\A i \in {1} :
            pc[i] \in Terminal /\ Malformed(event[i])
            => /\ response[i].statusCode = 500
               /\ response[i].body = json_dumps_error(InternalErrorMsg)
               /\ gen_calls[i] = 0
               /\ puts[i] = <<>>)
    /\ [][\A i \in {1} :
            pc[i] = "ParsingRequest" /\ Malformed(event[i]) /\ pc'[i] # pc[i]
            => /\ pc'[i] = "RespondingError"
               /\ response'[i].statusCode = 500]_vars

\* C4 witness: a malformed body has been answered
C4_Witness ==
    \E i \in DOMAIN pc :
        /\ pc[i] = "RespondingError"
        /\ Malformed(event[i])
        /\ response[i].statusCode = 500

\* C5: when the sanitized text is long enough and put_object raises, the
\* answer is 500 with the generic body, the text is not in the response,
\* and the invocation has made one generation call and one put.
C5_PutFailureIs500NoRetry ==
    \A i \in DOMAIN pc :
        pc[i] \in Terminal /\ puts[i] # <<>> /\ puts[i][1] = "failed"
        => /\ Len(blog[i]) >= MinBlogLen
           /\ response[i].statusCode = 500
           /\ response[i].body = json_dumps_error(InternalErrorMsg)
           /\ ~Contains(response[i].body, blog[i])
           /\ gen_calls[i] = 1
           /\ Len(puts[i]) = 1
           /\ s3_objects = <<>>

\* C5 witness: a put has failed and the handler has answered
C5_Witness ==
    \E i \in DOMAIN pc :
        /\ pc[i] = "RespondingError"
        /\ puts[i] = <<"failed">>
        /\ Len(blog[i]) >= MinBlogLen

\* C6 as stated: cleaning the cleaned text changes nothing.
C6_Idempotent == unit_pc = "recleaned" => recleaned = cleaned

\* C7 as stated: the cleaned text contains none of the four markers.
C7_NoResidualMarker ==
    unit_pc \in {"cleaned", "recleaned"}
    => \A m \in Markers : ~Contains(cleaned, m)

\* the text as blocks: each run of newlines and each other character,
\* with its length
Blocks(s) ==
    LET indexed == [j \in 1..Len(s) |-> j]
        heads == SelectSeq(indexed,
                    LAMBDA j : s[j] # "\n" \/ j = 1 \/ s[j - 1] # "\n")
    IN  [k \in 1..Len(heads) |->
            <<s[heads[k]],
              IF s[heads[k]] = "\n" THEN NewlineRun(s, heads[k]) ELSE 1>>]

\* C8: the cleaned text has no three consecutive newlines and no
\* whitespace at its ends, and it is the text after marker removal and
\* strip() with each run of three or more newlines replaced by two.
C8_NewlinesCollapsed ==
    unit_pc \in {"cleaned", "recleaned"}
    => /\ ~Contains(cleaned, <<"\n", "\n", "\n">>)
       /\ cleaned # <<>> => /\ cleaned[1] \notin Whitespace
                            /\ cleaned[Len(cleaned)] \notin Whitespace
       /\ Blocks(cleaned) =
             [k \in 1..Len(Blocks(stripped)) |->
                 IF Blocks(stripped)[k][1] = "\n" /\ Blocks(stripped)[k][2] >= 3
                 THEN <<"\n", 2>> ELSE Blocks(stripped)[k]]

\* C8 witness: a run of three newlines was left after strip() and is gone
C8_Witness ==
    /\ unit_pc = "cleaned"
    /\ Contains(stripped, <<"\n", "\n", "\n">>)
    /\ Contains(cleaned, <<"\n", "\n">>)

\* C9 as stated: the prompt contains the topic exactly once.
C9_TopicExactlyOnce ==
    unit_pc = "built" => Occurrences(given_topic, prompt) = 1

\* C9 as amended: the prompt contains the topic at least once, at the
\* position between the quotes that follow "on the topic: ".
C9_TopicAtItsPlace ==
    unit_pc = "built"
    => /\ MatchAt(prompt, TopicPos, given_topic)
       /\ prompt[TopicPos - 1] = "\"" /\ prompt[TopicPos + Len(given_topic)] = "\""
       /\ Occurrences(given_topic, prompt) >= 1

\* C9 witness: the topic "blog" occurs four times in its prompt
C9_Witness ==
    /\ unit_pc = "built"
    /\ given_topic = <<"b", "l", "o", "g">>
    /\ Occurrences(given_topic, prompt) = 4

\* C10: every invocation that has started comes to a terminal state, with
\* one response whose status is 200, 400 or 500, and no exception leaves
\* the handler.
C10_AlwaysOneResponse ==
    \A i \in {1} :
        /\ (pc[i] = "ParsingRequest") ~> (pc[i] \in Terminal)
        /\ [](pc[i] \in Terminal
              => returned[i] = 1 /\ response[i].statusCode \in {200, 400, 500})
        /\ [](returned[i] <= 1)
        /\ [](pc[i] # "Raised")

\* C10 witness: the put failed and the invocation has still answered once
C10_Witness ==
    \E i \in DOMAIN pc :
        /\ pc[i] \in Terminal
        /\ returned[i] = 1
        /\ puts[i] = <<"failed">>
        /\ response[i].statusCode = 500

\* the text is a JSON object with the one member "error", a string
IsErrorObject(b) ==
    LET open == <<"{", "\"", "e", "r", "r", "o", "r", "\"", ":", " ", "\"">>
        close == <<"\"", "}">>
    IN  /\ Len(b) >= Len(open) + Len(close)
        /\ MatchAt(b, 1, open)
        /\ MatchAt(b, Len(b) - Len(close) + 1, close)
        /\ \A k \in (Len(open) + 1)..(Len(b) - Len(close)) :
              b[k] \notin {"\"", "\\"}

\* C11: every response has the header Access-Control-Allow-Origin: *; its
\* body is the cleaned text when the status is 200 and a JSON object with
\* one "error" string when it is not.
C11_CorsAndBodyShape ==
    \A i \in DOMAIN pc :
        pc[i] \in Terminal
        => /\ AllowOrigin \in response[i].headers
           /\ response[i].statusCode # 200 => IsErrorObject(response[i].body)
           /\ response[i].statusCode = 200
              => /\ gen_calls[i] = 1
                 /\ response[i].body =
                       clean_llama_output(generation[i].generation)

\* C11 witness: the 400 response, the one with a single header
C11_Witness ==
    \E i \in DOMAIN pc :
        /\ pc[i] \in Terminal
        /\ response[i].statusCode = 400
        /\ response[i].headers = {AllowOrigin}
        /\ IsErrorObject(response[i].body)

\* invocation i has computed its key
Stamped(i) == s3_key[i] # <<>>

\* C12: two save_to_s3 calls have the same key exactly when their
\* timestamps are the same second; each key holds one object, the text of
\* the invocation that put last, so of two invocations that returned 200
\* with the same key only the last writer's text is stored.
C12_KeyPerSecondLastWriteWins ==
    /\ \A i, j \in DOMAIN pc :
          Stamped(i) /\ Stamped(j)
          => (stamp[i] = stamp[j] <=> s3_key[i] = s3_key[j])
    /\ \A i \in DOMAIN pc :
          Stamped(i) => /\ MatchAt(s3_key[i], 1, KeyPrefix)
                        /\ MatchAt(s3_key[i], Len(KeyPrefix) + 18,
                                   <<".", "t", "x", "t">>)
                        /\ Len(s3_key[i]) = Len(KeyPrefix) + 21
    /\ DOMAIN writer = DOMAIN s3_objects
    /\ \A k \in DOMAIN s3_objects :
          /\ s3_key[writer[k]] = k
          /\ s3_objects[k] = encode_utf8(blog[writer[k]])
    /\ \A i, j \in DOMAIN pc :
          (/\ i # j
           /\ pc[i] = "Responding" /\ pc[j] = "Responding"
           /\ s3_key[i] = s3_key[j])
          => /\ writer[s3_key[i]] \in {x \in DOMAIN pc : s3_key[x] = s3_key[i]}
             /\ s3_objects[s3_key[i]] = encode_utf8(blog[writer[s3_key[i]]])

\* C12 witness: two invocations returned 200 in the same second with
\* different texts, and the key holds the text of one of them only
C12_Witness ==
    \E i, j \in DOMAIN pc :
        /\ pc[i] = "Responding" /\ pc[j] = "Responding"
        /\ stamp[i] = stamp[j]
        /\ blog[i] # blog[j]
        /\ writer[s3_key[i]] = j
        /\ s3_objects[s3_key[i]] = encode_utf8(blog[j])
        /\ s3_objects[s3_key[i]] # encode_utf8(blog[i])

\* the response of an invocation that runs alone with event e, service
\* answer g and put outcomes p
AloneResponse(e, g, p) ==
    LET text == IF e.has_body THEN e.body ELSE <<LBrace, RBrace>>
        parsed == json_loads(text)
        t == dict_get(parsed.value, TopicKey)
        b == generate_blog(t, g)
    IN  IF e.has_body /\ ~e.is_str THEN InternalErrorResponse
        ELSE IF ~parsed.ok THEN InternalErrorResponse
        ELSE IF parsed.value.type # "dict" THEN InternalErrorResponse
        ELSE IF ~Truthy(t) THEN MissingTopicResponse
        ELSE IF TooShort(b) THEN GenerationFailedResponse
        ELSE IF p = <<"ok">> THEN BlogResponse(b)
        ELSE InternalErrorResponse

\* C13: under every interleaving, the response of an invocation is the one
\* it gives alone for its event, its service answer and its put outcome,
\* and its blog is made from its own service answer.
C13_ResponseAsAlone ==
    [][\A i \in 1..NumInvocations :
          /\ Responds(i)
             => response'[i] = AloneResponse(event[i], generation[i], puts'[i])
          /\ pc[i] \in Terminal
             => response'[i] = response[i] /\ pc'[i] = pc[i]
          /\ blog'[i] # blog[i] \/ gen_calls'[i] # gen_calls[i]
             => blog'[i] = generate_blog(topic[i], generation'[i])]_vars

\* C13 witness: two invocations with the same key returned different texts
C13_Witness ==
    \E i, j \in DOMAIN pc :
        /\ i # j
        /\ pc[i] = "Responding" /\ pc[j] = "Responding"
        /\ s3_key[i] = s3_key[j]
        /\ response[i].body # response[j].body
        /\ response[i] = AloneResponse(event[i], generation[i], puts[i])

\* C14 as stated: one generate call sends at most 3 requests to the
\* service; an error that is not transient ends the call at once; when the
\* requests are used up the call returns the empty text and raises nothing.
C14_AtMostThreeAttempts ==
    \A i \in DOMAIN pc :
        /\ attempts[i] <= 3
        /\ pc[i] # "Raised"
        /\ gen_calls[i] = 1 /\ generation[i].raised => blog[i] = <<>>

\* C15: an invocation calls generate_blog at most once and put_object at
\* most once, and it puts only after generate_blog has returned a text of
\* at least 100 characters.
C15_OneGenerationThenOnePut ==
    /\ [](\A i \in {1} :
            /\ gen_calls[i] <= 1
            /\ Len(puts[i]) <= 1
            /\ pc[i] \in {"Persisting", "Putting", "Saved", "Responding"}
                  \/ puts[i] # <<>>
               => gen_calls[i] = 1 /\ Len(blog[i]) >= MinBlogLen)
    /\ [][\A i \in {1} :
            puts'[i] # puts[i] \/ s3_objects' # s3_objects
            => /\ puts[i] = <<>>
               /\ gen_calls[i] = 1
               /\ pc[i] = "Putting"
               /\ Len(blog[i]) >= MinBlogLen]_vars

\* C15 witness: one generation call, then one put, then the 200 response
C15_Witness ==
    \E i \in DOMAIN pc :
        /\ pc[i] = "Responding"
        /\ gen_calls[i] = 1
        /\ puts[i] = <<"ok">>
        /\ Len(blog[i]) >= MinBlogLen

\* C16: an invocation that responds from the parsing or the validation
\* step has called neither the generation service nor the store, and its
\* step leaves the stored artifacts as they were.
C16_EarlyResponseTouchesNothing ==
    /\ [](\A i \in 1..NumInvocations :
            pc[i] \in Terminal /\ response[i].statusCode = 400
            => /\ gen_calls[i] = 0 /\ attempts[i] = 0 /\ puts[i] = <<>>
               /\ \A k \in DOMAIN writer : writer[k] # i)
    /\ [][\A i \in 1..NumInvocations :
            pc[i] \in {"ParsingRequest", "ValidatingTopic"} /\ pc'[i] \in Terminal
            => /\ response'[i] \in {MissingTopicResponse, InternalErrorResponse}
               /\ gen_calls'[i] = 0 /\ attempts'[i] = 0 /\ puts'[i] = <<>>
               /\ s3_objects' = s3_objects /\ writer' = writer
               /\ \A k \in DOMAIN writer : writer[k] # i]_vars

\* C16 witness: a 400 response given while another invocation's artifact
\* is in the store
C16_Witness ==
    \E i \in DOMAIN pc :
        /\ pc[i] = "RespondingError"
        /\ response[i].statusCode = 400
        /\ gen_calls[i] = 0
        /\ s3_objects # <<>>

====
